---- MODULE Spec2Model ----
(***************************************************************************)
(* Model of the decomposition estimators of cellrank                       *)
(* (cellrank/tools/estimators/_decomposition.py): one estimator object     *)
(* holding a kernel with a fixed transition matrix, on which compute_eig   *)
(* (Eigen._compute) and compute_schur (Schur._compute) are called.         *)
(*                                                                         *)
(* Numbers are fixed point with two decimals: the complex eigenvalue       *)
(* x + iy is the record [re |-> 100x, im |-> 100y].  A transition matrix   *)
(* is represented by its spectrum; an eigenvector is represented by the    *)
(* index, in that spectrum, of the eigenpair it belongs to.                *)
(*                                                                         *)
(* Further sections model the Partitioner (_property.py), the plotting     *)
(* methods of Eigen, _random_normal (kernels/_utils.py), and, from the     *)
(* specification, the selection of final states and the absorption         *)
(* probabilities; each has its own initial predicate and specification.    *)
(* So do lineages() (_lineages.py), the gene order of the heatmap          *)
(* (plotting/_heatmap.py), _plot_vectors and KernelHolder (_property.py)   *)
(* and _reconstruct_matrices (kernels/_utils.py).                          *)
(***************************************************************************)
EXTENDS Integers, Sequences, FiniteSets, TLC

\* np_random is the state of numpy's global generator (np.random), which no call
\* signature mentions
VARIABLES est, adata, T, issparse, last, np_random

vars == <<est, adata, T, issparse, last, np_random>>

\* ------------------------------------------------------------------ bounds

\* largest k passed to compute_eig
MaxK == 4
\* largest n_components passed to compute_schur
MaxComponents == 5
\* largest alpha passed to either compute call
MaxAlpha == 1

\* ------------------------------------------------------------- basic values

C(re, im) == [re |-> re, im |-> im]

\* an attribute that has not been set (Python None)
None == [none |-> TRUE]

Which == {"LR", "LM"}

real(D) == [i \in 1..Len(D) |-> C(D[i].re, 0)]

\* |z|^2, which orders complex numbers as |z| does
Abs2(z) == z.re * z.re + z.im * z.im

\* the quantity `which` orders eigenvalues by
Key(z, which) == IF which = "LR" THEN z.re ELSE Abs2(z)

\* np.isclose(z, 1, rtol=1e2 * EPS, atol=1e2 * EPS): at two decimals, equality
IsCloseToOne(z) == z.re = 100 /\ z.im = 0

\* The transition matrices the estimator is built on, by their spectra (the two
\* halves of a conjugate pair next to each other, the one with positive imaginary
\* part first).  All are row-stochastic:
\*   two_blocks : [[.75,.25],[.25,.75]] (+) [[.05,.95],[.95,.05]]
\*   two_flips  : [[0,1],[1,0]] (+) [[0,1],[1,0]]
\*   lazy_cycle : (0.2 I + 0.8 P3) (+) [[.75,.25],[.25,.75]], P3 the 3-cycle
\* and, irreducible, with the single eigenvalue 1:
\*   lazy_walk  : [[.5,.5,0],[.25,.5,.25],[0,.5,.5]]
Kernels == {"two_blocks", "two_flips", "lazy_cycle"}

Spectrum(t) ==
  CASE t = "two_blocks" -> << C(50, 0), C(100, 0), C(-90, 0), C(100, 0) >>
    [] t = "two_flips"  -> << C(-100, 0), C(100, 0), C(-100, 0), C(100, 0) >>
    [] t = "lazy_cycle" -> << C(50, 0), C(-20, 69), C(-20, -69), C(100, 0), C(100, 0) >>
    [] t = "lazy_walk"  -> << C(0, 0), C(100, 0), C(50, 0) >>

\* len(self): number of states of the chain
NStates(t) == Len(Spectrum(t))

\* ---------------------------------------------------------------- sorting

\* np.argsort(keys): the permutation that sorts keys ascending; equal keys are kept
\* in index order (numpy leaves their order to the sort kind)
argsort(keys) ==
  LET n == Len(keys)
      pos(i) == 1 + Cardinality({j \in 1..n : keys[j] < keys[i] \/ (keys[j] = keys[i] /\ j < i)})
  IN  [r \in 1..n |-> CHOOSE i \in 1..n : pos(i) = r]

\* np.flip(p)
flip(p) == [i \in 1..Len(p) |-> p[Len(p) + 1 - i]]

\* a[p] for an index array p
take(a, p) == [i \in 1..Len(p) |-> a[p[i]]]

\* a[:k]
head(a, k) == SubSeq(a, 1, IF k < Len(a) THEN k ELSE Len(a))

Min(a, b) == IF a < b THEN a ELSE b

\* ----------------------------------------------------------------- eigengap

\* complex numbers compared as numpy compares them: by real part, then imaginary
LexLess(a, b) == a.re < b.re \/ (a.re = b.re /\ a.im < b.im)

\* _eigengap(evals, alpha) of cellrank.tools._utils: the (0-based) index of the
\* largest score, score_i = (evals[i] - evals[i+1]) - alpha * i
eigengap_score(evals, alpha, i) ==
  C(evals[i].re - evals[i + 1].re - alpha * 100 * (i - 1), evals[i].im - evals[i + 1].im)

_eigengap(evals, alpha) ==
  LET n == Len(evals)
      best == CHOOSE i \in 1..(n - 1) :
                /\ \A j \in 1..(n - 1) :
                     ~LexLess(eigengap_score(evals, alpha, i), eigengap_score(evals, alpha, j))
                /\ \A j \in 1..(i - 1) :
                     LexLess(eigengap_score(evals, alpha, j), eigengap_score(evals, alpha, i))
  IN  best - 1

\* ------------------------------------------------------------ eigensolvers

\* A solver call returns either an error or eigenpairs, as the sequence of their
\* indices in the spectrum: ids[i] names both the i-th eigenvalue returned and the
\* i-th column of the eigenvector matrix returned.
Solved(ids) == [err |-> "none", ids |-> ids]
Failed(e) == [err |-> e, ids |-> << >>]

\* the index sets a solver asked for the top k under `which` may return: any k
\* eigenpairs none of which is beaten by one left out (ties fall either way)
TopKSets(t, k, which) ==
  LET S == Spectrum(t)
      n == Len(S)
  IN  {I \in SUBSET (1..n) :
         /\ Cardinality(I) = k
         /\ \A i \in I : \A j \in (1..n) \ I : Key(S[i], which) >= Key(S[j], which)}

\* the elements of a set of indices in ascending order
Ascending(I) ==
  LET pos(i) == 1 + Cardinality({j \in I : j < i})
  IN  [r \in 1..Cardinality(I) |-> CHOOSE i \in I : pos(i) = r]

\* Neither solver promises an order of the eigenpairs it returns; the orders
\* modelled are the ascending and the descending one.
SolverOrders(I) == {Ascending(I), flip(Ascending(I))}

\* scipy.sparse.linalg.eigs(A, k=k, which=which, ncv=ncv) on an n x n sparse
\* matrix: refuses k >= n - 1, may not converge, else returns k eigenpairs
eigs(t, k, which) ==
  IF k >= NStates(t) - 1 THEN {Failed("SolverRejectsK")}
  ELSE {Failed("ArpackNoConvergence")}
         \cup {Solved(ids) : ids \in UNION {SolverOrders(I) : I \in TopKSets(t, k, which)}}

\* np.linalg.eig(A): all n eigenpairs, or LinAlgError when it does not converge
linalg_eig(t) ==
  {Failed("LinAlgError")} \cup {Solved(ids) : ids \in SolverOrders(1..NStates(t))}

\* ------------------------------------------------------- calls and results

\* an exception, and the absence of one
Exc(type, why) == [type |-> type, why |-> why]
NoError == Exc("none", "")

\* The outcome of a call of a method of the estimator on the objects s (the
\* estimator and its adata): the objects afterwards, the exception that reached
\* the caller, the component counts passed to the Schur helper with the outcome of
\* each, and whether the complex-conjugate warning was logged.
Returns(s, attempts, errors, warned) ==
  [s |-> s, raised |-> NoError, attempts |-> attempts, errors |-> errors, warned |-> warned]

Raises(s, e, attempts, errors, warned) ==
  [s |-> s, raised |-> e, attempts |-> attempts, errors |-> errors, warned |-> warned]

\* EigWritable._write_eig_to_adata: one mapping, referenced from the estimator
\* and from adata.uns
\* f"eig_{self._direction}": _direction is a method and is not called, so what is
\* formatted is the bound method, whose text names the estimator (its repr holds
\* the number of states and the kernel) and not the direction
eig_key == <<"eig_", "<bound method KernelHolder._direction of", NStates(T), T, ">">>

_write_eig_to_adata(s, eig) ==
  [s EXCEPT !.est._eig = eig, !.adata.uns_eig = eig, !.adata.uns_keys = @ \cup {eig_key}]

\* ------------------------------------------------------------ Eigen._compute

\* D.real as the sort keys of np.argsort
reals(D) == [i \in 1..Len(D) |-> D[i].re]

\* get_top_k_evals of Eigen._compute
get_top_k_evals(D, k) == head(take(D, flip(argsort(reals(D)))), k)

eig_params(which, k, alpha) == [which |-> which, k |-> k, alpha |-> alpha]

\* the mapping written when only_evals is True
EvalsOnlyEig(D, sp, k, which, alpha) ==
  [D |-> get_top_k_evals(D, k),
   eigengap |-> IF sp THEN _eigengap(real(get_top_k_evals(D, k)), alpha)
                      ELSE _eigengap(real(D), alpha),
   params |-> eig_params(which, k, alpha)]

\* the mapping written when only_evals is False; D and V_l come from the solver
\* call on the transpose, V_r from the call on the matrix itself
FullEig(D, V_l, V_r, k, which, alpha) ==
  LET p == flip(argsort(reals(D)))
  IN  [D |-> take(D, p),
       stationary_dist |-> [of |-> take(V_l, p)[1]],
       V_l |-> take(V_l, p),
       V_r |-> take(V_r, p),
       eigengap |-> _eigengap(real(take(D, p)), alpha),
       params |-> eig_params(which, k, alpha)]

\* LeftCall with k silently reduced to what the sparse solver accepts
LeftCall_clamped(t, sp, k, which) ==
  IF sp THEN eigs(t, Min(k, NStates(t) - 2), which) ELSE linalg_eig(t)

\* the second solver call is not reached when the first one fails or only the
\* eigenvalues are asked for
NotCalled == Failed("not called")

\* the solver call on the transpose and the one on the matrix itself
LeftCall(t, sp, k, which) == IF sp THEN eigs(t, k, which) ELSE linalg_eig(t)

RightCall(t, sp, k, which) == IF sp THEN eigs(t, k, which) ELSE linalg_eig(t)

\* Eigen._compute writing the eigenvalues before it asks for the right eigenvectors
Eigen_compute_early_write(s, t, sp, k, which, alpha, only_evals, L, R) ==
  IF L.err # "none" THEN Raises(s, Exc(L.err, "left"), << >>, << >>, FALSE)
  ELSE IF only_evals \/ R.err # "none"
    THEN [Returns(_write_eig_to_adata(s, EvalsOnlyEig(take(Spectrum(t), L.ids), sp, k, which, alpha)),
                  << >>, << >>, FALSE)
          EXCEPT !.raised = IF only_evals THEN NoError ELSE Exc(R.err, "right")]
  ELSE Returns(_write_eig_to_adata(s, FullEig(take(Spectrum(t), L.ids), L.ids, R.ids, k, which, alpha)),
               << >>, << >>, FALSE)

\* Eigen._compute, L and R being what the two solver calls do
Eigen_compute(s, t, sp, k, which, alpha, only_evals, L, R) ==
  IF L.err # "none" THEN Raises(s, Exc(L.err, "left"), << >>, << >>, FALSE)
  ELSE IF only_evals
    THEN Returns(_write_eig_to_adata(s, EvalsOnlyEig(take(Spectrum(t), L.ids), sp, k, which, alpha)),
                 << >>, << >>, FALSE)
  ELSE IF R.err # "none" THEN Raises(s, Exc(R.err, "right"), << >>, << >>, FALSE)
  ELSE Returns(_write_eig_to_adata(s, FullEig(take(Spectrum(t), L.ids), L.ids, R.ids, k, which, alpha)),
               << >>, << >>, FALSE)

\* ------------------------------------------------------------- GPCCA object

\* the eigenvalues of the transition matrix in the order of the sorted Schur form:
\* descending under z, the two halves of a conjugate pair next to each other
SortedSchur(t, z) ==
  LET S == Spectrum(t)
  IN  take(S, argsort([i \in 1..Len(S) |-> 0 - Key(S[i], z)]))

conj(z) == C(z.re, 0 - z.im)

\* keeping the first m components would keep one half of a conjugate pair only
SplitsPair(S, m) == m < Len(S) /\ S[m].im > 0 /\ S[m + 1] = conj(S[m])

\* _GPCCA(transition_matrix, eta=initial_distribution, z=which, method=method):
\* nothing is decomposed yet
NewGPCCA(t, eta, z) ==
  [P |-> t, eta |-> eta, z |-> z, X |-> None, R |-> None, eigenvalues |-> None]

\* GPCCA._do_schur_helper(m); conv tells whether the Schur solver converges.
\* X is the list of the Schur vectors kept, R the list of the eigenvalues of its
\* diagonal blocks.
_do_schur_helper(gp, m, conv) ==
  LET S == SortedSchur(gp.P, gp.z)
  IN  IF gp.eta = "invalid" THEN [gp |-> gp, err |-> Exc("ValueError", "invalid eta")]
      ELSE IF m > Len(S) THEN [gp |-> gp, err |-> Exc("ValueError", "invalid m")]
      ELSE IF ~conv THEN [gp |-> gp, err |-> Exc("RuntimeError", "no convergence")]
      ELSE IF SplitsPair(S, m) THEN [gp |-> gp, err |-> Exc("ValueError", "split")]
      ELSE [gp |-> [gp EXCEPT !.X = [i \in 1..m |-> i], !.R = head(S, m),
                              !.eigenvalues = head(S, m)],
            err |-> NoError]

\* ------------------------------------------------------------ Schur._compute

\* the parameter check off by one
TooFewComponents_lt1(n_components) == n_components < 1

\* `if n_components < 2: raise ValueError`
TooFewComponents(n_components) == n_components < 2

\* `except ValueError:`
CaughtBySchur(e) == e.type = "ValueError"

\* a second attempt that skips a component count
RetryComponents_plus2(n_components) == n_components + 2

\* a second attempt with fewer components
RetryComponents_minus1(n_components) == n_components - 1

\* the component count of the second attempt
RetryComponents(n_components) == n_components + 1

\* what follows the try statement: the attributes and the eigendecomposition
StoreSchur(s, gp, which, alpha) ==
  _write_eig_to_adata(
    [s EXCEPT !.est._gpcca = gp, !.est._schur = gp.X, !.est._schur_matrix = gp.R],
    [D |-> gp.eigenvalues,
     eigengap |-> _eigengap(gp.eigenvalues, alpha),
     params |-> eig_params(which, Len(gp.eigenvalues), alpha)])

\* Schur._compute, conv1 and conv2 telling whether the solver converges in the
\* first and in the second attempt
Schur_compute(s, t, n_components, eta, which, alpha, conv1, conv2) ==
  IF TooFewComponents(n_components)
    THEN Raises(s, Exc("ValueError", "n_components"), << >>, << >>, FALSE)
  ELSE
    LET gp0 == NewGPCCA(t, eta, which)
        s0 == [s EXCEPT !.est._gpcca = gp0]
        a1 == _do_schur_helper(gp0, n_components, conv1)
        m2 == RetryComponents(n_components)
        a2 == _do_schur_helper(a1.gp, m2, conv2)
    IN  IF a1.err = NoError
          THEN Returns(StoreSchur(s0, a1.gp, which, alpha), <<n_components>>, <<a1.err>>, FALSE)
        ELSE IF ~CaughtBySchur(a1.err)
          THEN Raises(s0, a1.err, <<n_components>>, <<a1.err>>, FALSE)
        ELSE IF a2.err = NoError
          THEN Returns(StoreSchur(s0, a2.gp, which, alpha),
                       <<n_components, m2>>, <<a1.err, a2.err>>, TRUE)
        ELSE Raises([s0 EXCEPT !.est._gpcca = a2.gp], a2.err,
                    <<n_components, m2>>, <<a1.err, a2.err>>, TRUE)

\* ------------------------------------------------------------ state machine

Estimator0 == [_eig |-> None, _schur |-> None, _schur_matrix |-> None, _gpcca |-> None]

Objects == [est |-> est, adata |-> adata]

\* a call and its outcome; of the arguments, alpha is left to the stored params
Call(op, args, r) ==
  /\ est' = r.s.est
  /\ adata' = r.s.adata
  /\ last' = [op |-> op, args |-> args, raised |-> r.raised, attempts |-> r.attempts,
              errors |-> r.errors, warned |-> r.warned]
  /\ UNCHANGED <<T, issparse, np_random>>

\* the estimator right after construction, on any of the kernels
Init ==
  /\ T \in Kernels
  /\ issparse \in BOOLEAN
  /\ est = Estimator0
  /\ adata = [uns_eig |-> None, uns_keys |-> {}]
  /\ np_random = 0
  /\ last = [op |-> "init", args |-> << >>, raised |-> NoError, attempts |-> << >>,
             errors |-> << >>, warned |-> FALSE]

\* k starts at 2: with a single eigenvalue there is no gap for _eigengap to rank
compute_eig ==
  \E k \in 2..MaxK, which \in Which, alpha \in 1..MaxAlpha, only_evals \in BOOLEAN :
    \E L \in LeftCall(T, issparse, k, which) :
     \E R \in IF only_evals \/ L.err # "none" THEN {NotCalled}
                                               ELSE RightCall(T, issparse, k, which) :
      Call("compute_eig",
           [k |-> k, which |-> which, only_evals |-> only_evals],
           Eigen_compute(Objects, T, issparse, k, which, alpha, only_evals, L, R))

compute_schur ==
  \E n_components \in 0..MaxComponents, eta \in {"uniform", "invalid"},
     which \in Which, alpha \in 1..MaxAlpha, conv1 \in BOOLEAN, conv2 \in BOOLEAN :
      Call("compute_schur",
           [n_components |-> n_components, eta |-> eta, which |-> which],
           Schur_compute(Objects, T, n_components, eta, which, alpha, conv1, conv2))

Next == compute_eig \/ compute_schur

\* an estimator with both decompositions (GPCCA)
Spec == Init /\ [][Next]_vars

\* the estimator used for its eigendecomposition only
SpecEig == Init /\ [][compute_eig]_vars

\* the estimator used for its Schur decomposition only
SpecSchur == Init /\ [][compute_schur]_vars

\* ------------------------------------------------------------------ claims

SchurCall == last.op = "compute_schur"
EigCall == last.op = "compute_eig"
SplitError == Exc("ValueError", "split")

\* C1: compute_schur with n_components < 2 raises ValueError with no attempt at a
\* decomposition, and leaves the Schur vectors, the Schur matrix, the eig mapping
\* (on the estimator and in adata.uns) and _gpcca as they were.
C1_TooFewComponentsRejected ==
  [][(last'.op = "compute_schur" /\ last'.args.n_components < 2)
       => /\ last'.raised = Exc("ValueError", "n_components")
          /\ last'.attempts = << >>
          /\ est' = est
          /\ adata' = adata]_vars

\* a rejected call on an estimator that holds an earlier decomposition
C1_Witness ==
  /\ SchurCall
  /\ last.args.n_components < 2
  /\ last.raised.type = "ValueError"
  /\ est._gpcca # None
  /\ est._schur # None
  /\ est._eig # None

\* C2: every attempt of compute_schur(n_components = m) uses m or m + 1 components;
\* when the first attempt reports a split conjugate pair there is exactly one more
\* attempt, with m + 1, the adjustment is logged, and when that attempt succeeds
\* no error reaches the caller.
C2_RetryOnceWithOneMore ==
  SchurCall =>
    /\ \A i \in 1..Len(last.attempts) :
         last.attempts[i] \in {last.args.n_components, last.args.n_components + 1}
    /\ (Len(last.errors) >= 1 /\ last.errors[1] = SplitError)
         => /\ last.attempts = <<last.args.n_components, last.args.n_components + 1>>
            /\ last.warned
            /\ (last.errors[2] = NoError => last.raised = NoError)

\* a first attempt that splits a pair, followed by a successful second one
C2_Witness ==
  /\ SchurCall
  /\ Len(last.errors) = 2
  /\ last.errors[1] = SplitError
  /\ last.errors[2] = NoError
  /\ last.raised = NoError

\* the last diagonal block of R is one half of a complex-conjugate pair
EndsInSplitPair(R) ==
  LET c == Len(R)
  IN  /\ R[c].im # 0
      /\ ~(c >= 2 /\ R[c].im < 0 /\ R[c - 1] = conj(R[c]))

\* C3: after a successful compute_schur(n_components = m) the stored R does not end
\* in half a conjugate pair, and X, R and the stored eigenvalues all have m or
\* m + 1 components.
C3_NoSplitPairStored ==
  (SchurCall /\ last.raised = NoError) =>
    /\ ~EndsInSplitPair(est._schur_matrix)
    /\ Len(est._schur) \in {last.args.n_components, last.args.n_components + 1}
    /\ Len(est._schur_matrix) = Len(est._schur)
    /\ Len(est._eig.D) = Len(est._schur)
    /\ est._eig.params.k = Len(est._schur)

\* a successful call that kept one component more than asked for, the last two
\* being a conjugate pair
C3_Witness ==
  /\ SchurCall
  /\ last.raised = NoError
  /\ Len(est._schur) = last.args.n_components + 1
  /\ est._schur_matrix[Len(est._schur_matrix)].im # 0

\* C4 (as claimed): a first attempt that fails for another reason than a split
\* conjugate pair is the only attempt, nothing is logged as a complex-conjugate
\* adjustment, and its error is the one that reaches the caller.
C4_OnlySplitIsRetried ==
  (SchurCall /\ Len(last.errors) >= 1 /\ last.errors[1] \notin {NoError, SplitError})
    => /\ last.attempts = <<last.args.n_components>>
       /\ ~last.warned
       /\ last.raised = last.errors[1]

\* D is in descending order under `which`
Descending(D, which) ==
  \A i \in 1..(Len(D) - 1) : Key(D[i], which) >= Key(D[i + 1], which)

EigStored == EigCall /\ last.raised = NoError

\* C5 (as claimed): after compute_eig the stored eigenvalues are in descending
\* order under the criterion `which` of the call.
C5_SortedUnderWhich == EigStored => Descending(est._eig.D, last.args.which)

\* C6 (as claimed): after compute_eig(only_evals=False), for every i the columns
\* V_l[:, i] and V_r[:, i] are eigenvectors for the eigenvalue D[i].
C6_VectorsMatchValues ==
  (EigStored /\ ~last.args.only_evals) =>
    \A i \in 1..Len(est._eig.D) :
      /\ Spectrum(T)[est._eig.V_l[i]] = est._eig.D[i]
      /\ Spectrum(T)[est._eig.V_r[i]] = est._eig.D[i]

\* C7 (as claimed): on a dense matrix compute_eig with k < N stores k eigenvalues,
\* k columns in V_l and in V_r, and records that k.
C7_DenseKeepsTopK ==
  (EigStored /\ ~issparse /\ last.args.k < NStates(T)) =>
    /\ Len(est._eig.D) = last.args.k
    /\ est._eig.params.k = Len(est._eig.D)
    /\ ~last.args.only_evals
         => Len(est._eig.V_l) = last.args.k /\ Len(est._eig.V_r) = last.args.k

\* C8 (as claimed): the mapping written by compute_eig holds a stationary
\* distribution only if one of its eigenvalues is close to 1.
C8_StationaryOnlyNearOne ==
  (EigStored /\ "stationary_dist" \in DOMAIN est._eig) =>
    \E i \in 1..Len(est._eig.D) : IsCloseToOne(est._eig.D[i])

\* C9: compute_eig on a sparse N x N matrix with k >= N ends in an error and
\* stores nothing: the estimator and adata.uns stay as they were.
C9_SparseKTooLargeRejected ==
  [][(last'.op = "compute_eig" /\ issparse /\ last'.args.k >= NStates(T))
       => /\ last'.raised # NoError
          /\ est' = est
          /\ adata' = adata]_vars

\* such a call on an estimator that already holds an eigendecomposition
C9_Witness ==
  /\ EigCall
  /\ issparse
  /\ last.args.k >= NStates(T)
  /\ last.raised # NoError
  /\ est._eig # None

\* C10: when a solver call of compute_eig fails, the failure reaches the caller and
\* the eig attribute and the adata.uns entry keep their values.
C10_SolverFailureWritesNothing ==
  [][(last'.op = "compute_eig"
        /\ last'.raised.type \in {"ArpackNoConvergence", "LinAlgError"})
       => /\ est' = est
          /\ adata' = adata]_vars

\* the call for the right eigenvectors failed after the one for the left
\* eigenvectors had succeeded, on an estimator holding an earlier result
C10_Witness ==
  /\ EigCall
  /\ last.raised.type \in {"ArpackNoConvergence", "LinAlgError"}
  /\ last.raised.why = "right"
  /\ est._eig # None
  /\ adata.uns_eig = est._eig

\* ------------------------------------------------------------- Partitioner

\* largest number of states of a chain handed to compute_partition
MaxN == 3

\* For the partition a transition matrix is represented by its support: the chain
\* [n |-> N, succ |-> f] has T[i, j] > 0 exactly when j \in f[i]; every row of a
\* row-stochastic matrix has a positive entry.
Chains(maxn) ==
  UNION {{[n |-> n, succ |-> f] : f \in [1..n -> (SUBSET (1..n)) \ {{}}]} : n \in 1..maxn}

RECURSIVE Closure(_, _)
Closure(t, S) ==
  LET S2 == S \cup UNION {t.succ[j] : j \in S}
  IN  IF S2 = S THEN S ELSE Closure(t, S2)

\* the states that communicate with i
CommunicationClass(t, i) == {j \in Closure(t, {i}) : i \in Closure(t, {j})}

IsClosed(t, c) == \A i \in c : t.succ[i] \subseteq c

\* cellrank.tools._utils.partition: the communication classes of the chain, the
\* closed ones as recurrent, the others as transient
partition(t) ==
  LET classes == {CommunicationClass(t, i) : i \in 1..t.n}
  IN  [rec |-> {c \in classes : IsClosed(t, c)},
       trans |-> {c \in classes : ~IsClosed(t, c)}]

\* cellrank.tools._utils._make_cat: one category per state, the class of the list
\* that holds the state, and no category (here {}) for a state in none of them
_make_cat(classes, n_states) ==
  [i \in 1..n_states |-> UNION {c \in classes : i \in c}]

IsIrreducible_one_recurrent(rec_classes, trans_classes) == Cardinality(rec_classes) = 1

IsIrreducible(rec_classes, trans_classes) ==
  Cardinality(rec_classes) = 1 /\ Cardinality(trans_classes) = 0

StoreClasses_swapped(e, p, n_states) ==
  [e EXCEPT !._trans_classes = _make_cat(p.rec, n_states),
            !._rec_classes = _make_cat(p.trans, n_states)]

StoreClasses(e, p, n_states) ==
  [e EXCEPT !._trans_classes = _make_cat(p.trans, n_states),
            !._rec_classes = _make_cat(p.rec, n_states)]

\* Partitioner.compute_partition: the classes are stored only when the chain is
\* not irreducible
Partitioner_compute(e, t) ==
  LET n_states == t.n
      p == partition(t)
      e1 == [e EXCEPT !._is_irreducible = IsIrreducible(p.rec, p.trans)]
  IN  [est |-> IF ~e1._is_irreducible THEN StoreClasses(e1, p, n_states) ELSE e1,
       computed |-> p,
       warned |-> e1._is_irreducible]

Partitioner0 == [_is_irreducible |-> None, _rec_classes |-> None, _trans_classes |-> None]

InitPartition ==
  /\ T \in Chains(MaxN)
  /\ issparse \in BOOLEAN
  /\ est = Partitioner0
  /\ adata = [uns_eig |-> None, uns_keys |-> {}]
  /\ np_random = 0
  /\ last = [op |-> "init"]

compute_partition ==
  LET r == Partitioner_compute(est, T)
  IN  /\ est' = r.est
      /\ last' = [op |-> "compute_partition", computed |-> r.computed, warned |-> r.warned]
      /\ UNCHANGED <<adata, T, issparse, np_random>>

\* a Partitioner on any chain of at most MaxN states
SpecPartition == InitPartition /\ [][compute_partition]_vars

PartitionCall == last.op = "compute_partition"

\* j can be reached from i in at most k steps
RECURSIVE Within(_, _, _)
Within(t, i, k) ==
  IF k = 0 THEN {i}
  ELSE LET W == Within(t, i, k - 1) IN W \cup {j \in 1..t.n : \E h \in W : j \in t.succ[h]}

Reaches(t, i, j) == j \in Within(t, i, t.n)

\* C11: after compute_partition, is_irreducible is True exactly when the computed
\* partition has one recurrent class and no transient class, that is exactly when
\* every state of the chain reaches every other.
C11_IrreducibleIffOneRecurrentClass ==
  PartitionCall =>
    /\ est._is_irreducible =
         (Cardinality(last.computed.rec) = 1 /\ last.computed.trans = {})
    /\ est._is_irreducible = (\A i, j \in 1..T.n : Reaches(T, i, j))

\* a chain with one recurrent class and a transient state: not irreducible
C11_Witness ==
  /\ PartitionCall
  /\ Cardinality(last.computed.rec) = 1
  /\ last.computed.trans # {}
  /\ est._is_irreducible = FALSE

C13_AllFieldsUpdated ==
  PartitionCall =>
    /\ est._rec_classes # None
    /\ est._trans_classes # None
    /\ est._rec_classes = _make_cat(last.computed.rec, T.n)
    /\ est._trans_classes = _make_cat(last.computed.trans, T.n)

\* ---------------------------------------------------------- Eigen: plotting

\* largest integer passed as `use` to plot_eigendecomposition
MaxUse == 2

\* the column V[:, 0] = 1.0 writes: the vector of ones, which is no eigenpair of
\* the spectrum
Ones == 0

\* `use`: << >> for None, <<n>> for the integer n
Uses == {<< >>} \cup {<<n>> : n \in 0..MaxUse}

\* VectorPlottable._plot_vectors for an integer `use` and vectors that are there:
\* the exception it raises, if any
_plot_vectors(V, use) ==
  IF use = 0 THEN Exc("ValueError", "nothing to plot")
  ELSE IF use - 1 >= Len(V) THEN Exc("ValueError", "more than computed")
  ELSE NoError

\* Eigen.plot_eigendecomposition: V is eig["V_r"] itself, the array the stored
\* mapping (and adata.uns, which references the same mapping) holds, so the
\* assignment to its first column changes the stored decomposition
Eigen_plot_eigendecomposition(s, left, use) ==
  LET eig == s.est._eig
      side == IF left THEN "V_l" ELSE "V_r"
  IN  IF eig = None
        THEN Raises(s, Exc("RuntimeError", "compute eig first"), << >>, << >>, FALSE)
      ELSE IF side \notin DOMAIN eig
        THEN Raises(s, Exc("RuntimeError", "compute with only_evals=False"), << >>, << >>, FALSE)
      ELSE
        LET D == eig.D
            irreducible == Cardinality({i \in 1..Len(D) : IsCloseToOne(D[i])}) = 1
            s1 == IF side = "V_r" /\ irreducible
                    THEN [s EXCEPT !.est._eig.V_r[1] = Ones, !.adata.uns_eig.V_r[1] = Ones]
                    ELSE s
            use1 == IF use = << >> THEN eig.eigengap + 1 ELSE use[1]
            e == _plot_vectors(s1.est._eig[side], use1)
        IN  IF e = NoError THEN Returns(s1, << >>, << >>, FALSE)
                           ELSE Raises(s1, e, << >>, << >>, FALSE)

\* Eigen.plot_spectrum, in the real or the complex plane: reads D, eigengap and
\* params of the stored mapping
Eigen_plot_spectrum(s, real_only) ==
  IF s.est._eig = None
    THEN Raises(s, Exc("RuntimeError", "compute eig first"), << >>, << >>, FALSE)
    ELSE Returns(s, << >>, << >>, FALSE)

plot_eigendecomposition ==
  \E left \in BOOLEAN, use \in Uses :
      Call("plot_eigendecomposition", << >>, Eigen_plot_eigendecomposition(Objects, left, use))

plot_spectrum ==
  \E real_only \in BOOLEAN :
      Call("plot_spectrum", << >>, Eigen_plot_spectrum(Objects, real_only))

\* an estimator on the irreducible chain or on a reducible one
InitPlots ==
  /\ T \in {"lazy_walk", "two_blocks"}
  /\ issparse \in BOOLEAN
  /\ est = Estimator0
  /\ adata = [uns_eig |-> None, uns_keys |-> {}]
  /\ np_random = 0
  /\ last = [op |-> "init", args |-> << >>, raised |-> NoError, attempts |-> << >>,
             errors |-> << >>, warned |-> FALSE]

\* the eigendecomposition computed and plotted, in any order
SpecPlots == InitPlots /\ [][compute_eig \/ plot_eigendecomposition \/ plot_spectrum]_vars

PlotCall == last.op \in {"plot_eigendecomposition", "plot_spectrum"}

\* C14: a plot call, of the eigenvectors of either side with any `use` or of the
\* spectrum, leaves the stored eigendecomposition as it was, on the estimator and
\* in adata.uns: only a compute call changes it.
C14_PlotsLeaveEigUnchanged ==
  [][PlotCall' => (est' = est /\ adata' = adata)]_vars

\* ------------------------------------------------------------- determinism

\* period of the global generator
Period == 3
\* longest mean vector passed to _random_normal
MaxDim == 1
\* largest n_samples passed to _random_normal
MaxSamples == 2

\* the standard normal deviate the generator yields in state g
StdNormal(g) == 100 * (g - 1)

\* the j-th np.random.normal(loc, scale) after state g: no seed and no generator
\* is passed, the draw comes from np.random
np_random_normal(g, j, loc, scale) == loc + (scale * StdNormal((g + j - 1) % Period)) \div 100

RECURSIVE Sum(_)
Sum(xs) == IF xs = << >> THEN 0 ELSE Head(xs) + Sum(Tail(xs))

\* _random_normal(m, v, n_samples, average) with the generator in state g: the
\* array returned and the state the generator is left in
_random_normal(g, m, v, n_samples, average) ==
  LET d == Len(m)
      draws(i) == [j \in 1..n_samples |->
                     np_random_normal(g, (i - 1) * n_samples + j, m[i], v[i])]
  IN  [result |-> IF n_samples = 1 THEN [i \in 1..d |-> draws(i)[1]]
                  ELSE IF average THEN [i \in 1..d |-> Sum(draws(i)) \div n_samples]
                  ELSE [i \in 1..d |-> draws(i)],
       g |-> (g + d * n_samples) % Period]

Vectors(vals) == UNION {[1..d -> vals] : d \in 1..MaxDim}

random_normal ==
  \E m \in Vectors({0, 100}), v \in Vectors({0, 100}),
     n_samples \in 1..MaxSamples, average \in BOOLEAN :
      /\ Len(m) = Len(v)
      /\ LET r == _random_normal(np_random, m, v, n_samples, average)
         IN  /\ np_random' = r.g
             /\ last' = [op |-> "_random_normal",
                         args |-> [m |-> m, v |-> v, n_samples |-> n_samples,
                                   average |-> average],
                         raised |-> NoError, result |-> r.result]
      /\ UNCHANGED <<est, adata, T, issparse>>

\* a process with an estimator on a sparse matrix, in which kernels draw from
\* _random_normal; the generator is in any state
InitRandom ==
  /\ T = "two_blocks"
  /\ issparse = TRUE
  /\ est = Estimator0
  /\ adata = [uns_eig |-> None, uns_keys |-> {}]
  /\ np_random \in 0..(Period - 1)
  /\ last = [op |-> "init", args |-> << >>, raised |-> NoError, attempts |-> << >>,
             errors |-> << >>, warned |-> FALSE]

SpecRandom == InitRandom /\ [][compute_eig \/ random_normal]_vars

\* C15: two runs with the same arguments, one after the other and neither
\* raising, give the same result: compute_eig stores the same mapping (the sparse
\* solver is given no starting vector of the caller's), and _random_normal, which
\* takes no seed, returns the same array.
C15_SameRunSameResult ==
  [][(/\ last'.op = last.op
      /\ last.op \in {"compute_eig", "_random_normal"}
      /\ last'.args = last.args
      /\ last.raised = NoError /\ last'.raised = NoError)
     => /\ last.op = "compute_eig" =>
             (est'._eig.params = est._eig.params => est'._eig = est._eig)
        /\ last.op = "_random_normal" => last'.result = last.result]_vars

\* --------------------------------------------- eigengap of the two stages

\* what Eigen._compute passes to _eigengap for the eigenvalues D: their real
\* parts, in descending order
EigenEigengapArgument(D) == real(take(D, flip(argsort(reals(D)))))

\* what Schur._compute passes to _eigengap: the eigenvalues of the GPCCA object
\* as they are, complex and in the order of the sorted Schur form
SchurEigengapArgument(gp) == gp.eigenvalues

SchurStored == SchurCall /\ last.raised = NoError

\* C16: the eigengap compute_schur stores is the one compute_eig computes for the
\* same eigenvalues and alpha: the values passed to _eigengap are the same (same
\* reduction to real numbers, same order), and so is the index stored.
C16_SchurEigengapAsEigen ==
  SchurStored =>
    /\ SchurEigengapArgument(est._gpcca) = EigenEigengapArgument(est._eig.D)
    /\ est._eig.eigengap =
         _eigengap(EigenEigengapArgument(est._eig.D), est._eig.params.alpha)

\* ---------------------------------------------------- terminal-state selection

\* largest number of macrostates
MaxMacro == 3

\* self-transition probabilities of the coarse-grained matrix, in hundredths
DiagValues == {20, 50, 90}

SelectTopN_first(diag, n) == {i \in 1..Len(diag) : i <= n}

\* the n macrostates ranked first by descending diagonal entry
SelectTopN(diag, n) ==
  LET p == flip(argsort(diag))
  IN  {p[r] : r \in 1..n}

\* compute_final_states(method="eigengap"): the top eigengap + 1 macrostates by
\* the diagonal of coarse_T become the final states
compute_final_states_eigengap(e) ==
  [e EXCEPT !._fin = SelectTopN(e._coarse_T, e._eig.eigengap + 1)]

\* an estimator with its macrostates, their coarse-grained matrix (the diagonal of
\* it) and an eigengap that asks for no more states than there are
InitSelector ==
  /\ T \in Kernels
  /\ issparse = FALSE
  /\ \E m \in 2..MaxMacro : \E diag \in [1..m -> DiagValues], gap \in 0..(m - 1) :
       est = [_coarse_T |-> diag, _eig |-> [eigengap |-> gap], _fin |-> None]
  /\ adata = [uns_eig |-> None, uns_keys |-> {}]
  /\ np_random = 0
  /\ last = [op |-> "init"]

compute_final_states ==
  /\ est' = compute_final_states_eigengap(est)
  /\ last' = [op |-> "compute_final_states", method |-> "eigengap"]
  /\ UNCHANGED <<adata, T, issparse, np_random>>

SpecSelector == InitSelector /\ [][compute_final_states]_vars

\* C17: method 'eigengap' selects exactly eigengap + 1 macrostates, and no
\* macrostate left out has a strictly larger diagonal entry of the coarse-grained
\* matrix than a selected one.
C17_EigengapSelectsTopDiagonal ==
  last.op = "compute_final_states" =>
    /\ est._fin \subseteq 1..Len(est._coarse_T)
    /\ Cardinality(est._fin) = est._eig.eigengap + 1
    /\ \A i \in est._fin : \A j \in (1..Len(est._coarse_T)) \ est._fin :
         est._coarse_T[j] <= est._coarse_T[i]

\* two of three macrostates selected, the one left out being the first by index
C17_Witness ==
  /\ last.op = "compute_final_states"
  /\ Len(est._coarse_T) = 3
  /\ est._fin = {2, 3}
  /\ est._coarse_T[1] < est._coarse_T[2]

\* ------------------------------------------------- absorption probabilities

\* largest number of states of the chains with uniform rows
MaxAbsN == 3
\* largest weight of an edge leaving the hub
MaxWeight == 2

\* For absorption a chain also carries integer weights: T[i, j] is w[i][j] over
\* the sum of row i.
Weighted(n, w) ==
  [n |-> n, w |-> w, succ |-> [i \in 1..n |-> {j \in 1..n : w[i][j] > 0}]]

\* every chain of Chains(maxn), each row uniform on its support
UniformChains(maxn) ==
  {Weighted(c.n, [i \in 1..c.n |-> [j \in 1..c.n |-> IF j \in c.succ[i] THEN 1 ELSE 0]]) :
     c \in Chains(maxn)}

\* the 5-state scenario: the sinks {1, 2} and {3, 4}, and the hub 5 that moves to
\* state 1 with weight a, to state 3 with weight b and stays with weight c
Scenario(a, b, c) ==
  Weighted(5, << <<1, 1, 0, 0, 0>>, <<1, 1, 0, 0, 0>>, <<0, 0, 1, 1, 0>>,
                 <<0, 0, 1, 1, 0>>, <<a, 0, b, 0, c>> >>)

Scenarios ==
  {Scenario(a, b, c) : a \in 0..MaxWeight, b \in 0..MaxWeight, c \in 0..MaxWeight}
    \ {Scenario(0, 0, 0)}

RowSum(t, i) == Sum(t.w[i])

\* the elements of a set of integers, ascending
Sorted(S) ==
  [r \in 1..Cardinality(S) |-> CHOOSE i \in S : Cardinality({j \in S : j < i}) = r - 1]

Minor(M, j) ==
  [r \in 1..(Len(M) - 1) |-> [c \in 1..(Len(M) - 1) |-> M[r + 1][IF c < j THEN c ELSE c + 1]]]

RECURSIVE Det(_)
Det(M) ==
  IF Len(M) = 0 THEN 1
  ELSE IF Len(M) = 1 THEN M[1][1]
  ELSE Sum([j \in 1..Len(M) |->
             (IF j % 2 = 1 THEN 1 ELSE -1) * M[1][j] * Det(Minor(M, j))])

\* row s of R taken as the whole mass that leaves s
IntoMacrostate_anywhere(t, s, m) == RowSum(t, s) - t.w[s][s]

\* row s of R: the transition weight from s into the terminal macrostate m
IntoMacrostate(t, s, m) == Sum([j \in 1..t.n |-> IF j \in m THEN t.w[s][j] ELSE 0])

\* A row of the result: the probabilities num[m] / den, m a terminal macrostate.
OneHot(terms, m0) == [num |-> [m \in terms |-> IF m = m0 THEN 1 ELSE 0], den |-> 1]

ResidualRow_uniform(terms) == [num |-> [m \in terms |-> 1], den |-> Cardinality(terms)]

\* the row of a state of a recurrent class that is not terminal: it reaches no
\* terminal state
ResidualRow(terms) == [num |-> [m \in terms |-> 0], den |-> 1]

\* compute_absorption(transition_matrix, communication_classes, terminal_states):
\* (I - Q) X = R over the transient states, solved exactly by Cramer's rule with
\* each row scaled by its row sum; a singular system is an error
compute_absorption(t, classes, terms) ==
  LET trans == UNION classes.trans
      ts == Sorted(trans)
      k == Len(ts)
      A == [r \in 1..k |-> [c \in 1..k |->
             (IF r = c THEN RowSum(t, ts[r]) ELSE 0) - t.w[ts[r]][ts[c]]]]
      R(m) == [r \in 1..k |-> IntoMacrostate(t, ts[r], m)]
      Replaced(c0, v) == [r \in 1..k |-> [c \in 1..k |-> IF c = c0 THEN v[r] ELSE A[r][c]]]
      index(s) == CHOOSE r \in 1..k : ts[r] = s
      d == Det(A)
  IN  IF d = 0
        THEN [raised |-> Exc("LinAlgError", "singular"), X |-> None]
        ELSE [raised |-> NoError,
              X |-> [s \in 1..t.n |->
                       IF s \in trans
                         THEN [num |-> [m \in terms |-> Det(Replaced(index(s), R(m)))],
                               den |-> d]
                       ELSE IF \E m \in terms : s \in m
                         THEN OneHot(terms, CHOOSE m \in terms : s \in m)
                       ELSE ResidualRow(terms)]]

\* an estimator whose final states are some of the recurrent classes of its chain
InitAbsorption ==
  /\ T \in UniformChains(MaxAbsN) \cup Scenarios
  /\ issparse = FALSE
  /\ \E terms \in (SUBSET partition(T).rec) \ {{}} :
       est = [_fin |-> terms, _abs_probs |-> None]
  /\ adata = [uns_eig |-> None, uns_keys |-> {}]
  /\ np_random = 0
  /\ last = [op |-> "init", raised |-> NoError]

compute_absorption_probabilities ==
  LET r == compute_absorption(T, partition(T), est._fin)
  IN  /\ est' = [est EXCEPT !._abs_probs = r.X]
      /\ last' = [op |-> "compute_absorption_probabilities", raised |-> r.raised]
      /\ UNCHANGED <<adata, T, issparse, np_random>>

SpecAbsorption == InitAbsorption /\ [][compute_absorption_probabilities]_vars

AbsorptionCall == last.op = "compute_absorption_probabilities"

RECURSIVE SumOver(_, _)
SumOver(f, S) ==
  IF S = {} THEN 0 ELSE LET x == CHOOSE x \in S : TRUE IN f[x] + SumOver(f, S \ {x})

\* the row of state s sums to den: to 1
RowTotal(s) == SumOver(est._abs_probs[s].num, est._fin)

RecurrentState(t, i) == \A j \in 1..t.n : Reaches(t, i, j) => Reaches(t, j, i)

TerminalStates == UNION est._fin

\* C18: compute_absorption returns a result; when the chain has a single
\* recurrent class and it is the terminal set, every row sums to 1; the row of a
\* state of a recurrent class that is not terminal sums to strictly less than 1.
C18_RowSums ==
  AbsorptionCall =>
    /\ last.raised = NoError
    /\ (/\ \A i, j \in 1..T.n :
             RecurrentState(T, i) /\ RecurrentState(T, j) => Reaches(T, i, j)
        /\ TerminalStates = {i \in 1..T.n : RecurrentState(T, i)})
       => \A s \in 1..T.n : RowTotal(s) = est._abs_probs[s].den
    /\ \A s \in 1..T.n :
         RecurrentState(T, s) /\ s \notin TerminalStates
           => RowTotal(s) < est._abs_probs[s].den

\* the hub moves into a terminal sink and into one that is not terminal: the
\* states of the latter have rows below 1, and so has the hub
C18_Witness ==
  /\ AbsorptionCall
  /\ last.raised = NoError
  /\ T.n = 5
  /\ \E s \in 1..T.n : RecurrentState(T, s) /\ s \notin TerminalStates
  /\ 0 < RowTotal(5) /\ RowTotal(5) < est._abs_probs[5].den

IsScenario == T.n = 5 /\ T = Scenario(T.w[5][1], T.w[5][3], T.w[5][5])

\* C19: a state that reaches no state of a terminal macrostate has absorption
\* probability exactly 0 for it; in the 5-state scenario with both sinks
\* terminal, a hub with no edge into one sink and an edge into the other is
\* absorbed by the former with probability 0 and by the latter with probability 1.
C19_UnreachableIsZero ==
  AbsorptionCall =>
    /\ \A s \in 1..T.n : \A m \in est._fin :
         (\A j \in m : ~Reaches(T, s, j)) => est._abs_probs[s].num[m] = 0
    /\ (IsScenario /\ est._fin = {{1, 2}, {3, 4}}) =>
         LET hub == est._abs_probs[5]
         IN  /\ (T.w[5][1] = 0 /\ T.w[5][3] > 0) =>
                  (hub.num[{1, 2}] = 0 /\ hub.num[{3, 4}] = hub.den)
             /\ (T.w[5][3] = 0 /\ T.w[5][1] > 0) =>
                  (hub.num[{3, 4}] = 0 /\ hub.num[{1, 2}] = hub.den)

\* the scenario with the hub's edge into the first sink removed
C19_Witness ==
  /\ AbsorptionCall
  /\ IsScenario
  /\ est._fin = {{1, 2}, {3, 4}}
  /\ T.w[5][1] = 0 /\ T.w[5][3] > 0 /\ T.w[5][5] > 0
  /\ est._abs_probs[5].num[{3, 4}] = est._abs_probs[5].den

\* ------------------------------------------------------ eigengap and alpha

\* largest number of eigenvalues of a spectrum
MaxLen == 3
\* largest alpha passed to the eigengap
MaxGapAlpha == 2

\* real spectra holding the eigenvalue 1, in the order a solver may return them
GapSpectra ==
  {D \in UNION {[1..n -> {C(100, 0), C(90, 0), C(30, 0), C(-90, 0)}] : n \in 2..MaxLen} :
     \E i \in 1..Len(D) : IsCloseToOne(D[i])}

\* a spectrum whose eigengap is asked for with one alpha after the other
InitEigengap ==
  /\ T \in GapSpectra
  /\ issparse = FALSE
  /\ est = Estimator0
  /\ adata = [uns_eig |-> None, uns_keys |-> {}]
  /\ np_random = 0
  /\ last = [op |-> "init"]

\* lines 120-122 of Eigen._compute: the eigengap of the sorted real parts
eigengap ==
  \E alpha \in 0..MaxGapAlpha :
      /\ last' = [op |-> "_eigengap", alpha |-> alpha,
                  e_gap |-> _eigengap(EigenEigengapArgument(T), alpha)]
      /\ UNCHANGED <<est, adata, T, issparse, np_random>>

SpecEigengap == InitEigengap /\ [][eigengap]_vars

\* C20: for a fixed spectrum the eigengap index does not decrease when alpha
\* increases; in particular with alpha > 0 it is not below its value at alpha = 0.
C20_EigengapMonotoneInAlpha ==
  [][(last.op = "_eigengap" /\ last'.op = "_eigengap" /\ last.alpha <= last'.alpha)
       => last.e_gap <= last'.e_gap]_vars

\* ------------------------------------------------------------- lineages()

\* what may be passed as `estimator`: two estimator classes, a class that does not
\* derive from BaseEstimator, and an instance of an estimator
EstimatorArgs == {"GPCCA", "CFLARE", "dict", "GPCCA()"}

IsClass(e) == e \in {"GPCCA", "CFLARE", "dict"}
IsEstimatorClass(e) == e \in {"GPCCA", "CFLARE"}

\* An AnnData for lineages(): which transition matrices it holds, and the keys
\* of obsm under which lineage probabilities were written.
AnnDatas == [T_fwd : BOOLEAN, T_bwd : BOOLEAN, obsm : SUBSET {"to_final_states", "from_root_states"}]

EstimatorCheck_class_only(estimator) ==
  IF ~IsClass(estimator) THEN Exc("TypeError", "not a class") ELSE NoError

\* lines 70-78: the two checks of `estimator`
EstimatorCheck(estimator) ==
  IF ~IsClass(estimator) THEN Exc("TypeError", "not a class")
  ELSE IF ~IsEstimatorClass(estimator) THEN Exc("TypeError", "not a BaseEstimator")
  ELSE NoError

\* AbsProbKey of the direction
lin_key(backward) == IF backward THEN "from_root_states" ELSE "to_final_states"

\* _read_graph_data(adata, _transition(direction)) finds the matrix
HasTransitionMatrix(a, backward) == IF backward THEN a.T_bwd ELSE a.T_fwd

\* mc.fit(...) writes the lineages to the adata the estimator was built on
Fitted(a, backward) == [a EXCEPT !.obsm = @ \cup {lin_key(backward)}]

ReturnValue_estimator_first(copy, return_estimator, a, mc) ==
  IF return_estimator THEN [kind |-> "estimator", value |-> mc]
  ELSE IF copy THEN [kind |-> "adata", value |-> a]
  ELSE [kind |-> "None", value |-> None]

\* line 117: `return adata if copy else mc if return_estimator else None`
ReturnValue(copy, return_estimator, a, mc) ==
  IF copy THEN [kind |-> "adata", value |-> a]
  ELSE IF return_estimator THEN [kind |-> "estimator", value |-> mc]
  ELSE [kind |-> "None", value |-> None]

\* The outcome of lineages(): the caller's adata afterwards, the steps taken, the
\* exception raised and the value returned.  kernel_ok and fit_ok tell whether
\* VelocityKernel(...) and mc.fit(...) succeed.
LineagesOutcome(a, steps, raised, returned) ==
  [adata |-> a, steps |-> steps, raised |-> raised, returned |-> returned]

NoValue == [kind |-> "None", value |-> None]

Lineages(a, estimator, backward, copy, return_estimator, kernel_ok, fit_ok) ==
  LET e == EstimatorCheck(estimator)
      s1 == IF copy THEN <<"copy">> ELSE << >>
      s2 == s1 \o <<"kernel">>
      s3 == s2 \o <<"read">>
      s4 == s3 \o <<"construct">>
      s5 == s4 \o <<"fit">>
      \* the adata worked on is a copy, or the caller's object itself
      work == Fitted(a, backward)
      mc == [class |-> estimator, adata |-> work, backward |-> backward]
  IN  IF e # NoError THEN LineagesOutcome(a, << >>, e, NoValue)
      ELSE IF ~kernel_ok
        THEN LineagesOutcome(a, s1, Exc("Exception", "VelocityKernel"), NoValue)
      ELSE IF ~HasTransitionMatrix(a, backward)
        THEN LineagesOutcome(a, s3, Exc("KeyError", "compute the states first"), NoValue)
      ELSE IF ~fit_ok
        THEN LineagesOutcome(a, s5, Exc("RuntimeError", "fit"), NoValue)
      ELSE LineagesOutcome(IF copy THEN a ELSE work, s5, NoError,
                           ReturnValue(copy, return_estimator, work, mc))

InitLineages ==
  /\ T = "two_blocks"
  /\ issparse = FALSE
  /\ est = None
  /\ adata \in AnnDatas
  /\ np_random = 0
  /\ last = [op |-> "init"]

lineages ==
  \E estimator \in EstimatorArgs, backward \in BOOLEAN, copy \in BOOLEAN,
     return_estimator \in BOOLEAN, kernel_ok \in BOOLEAN, fit_ok \in BOOLEAN :
      LET r == Lineages(adata, estimator, backward, copy, return_estimator, kernel_ok, fit_ok)
      IN  /\ adata' = r.adata
          /\ last' = [op |-> "lineages",
                      args |-> [estimator |-> estimator, backward |-> backward,
                                copy |-> copy, return_estimator |-> return_estimator],
                      steps |-> r.steps, raised |-> r.raised, returned |-> r.returned]
          /\ UNCHANGED <<est, T, issparse, np_random>>

SpecLineages == InitLineages /\ [][lineages]_vars

LineagesCall == last.op = "lineages"

Steps(q) == {q[i] : i \in 1..Len(q)}

\* C21: a lineages() call that returns gives back, with copy=True, a copy of adata
\* that holds the results while the caller's adata is as before (whatever
\* return_estimator is); with copy=False and return_estimator=True the estimator,
\* fitted on the caller's adata; and None when both are False.
C21_LineagesReturnValue ==
  [][(LineagesCall' /\ last'.raised = NoError) =>
       LET a == last'.args
           r == last'.returned
       IN  /\ a.copy =>
                /\ r.kind = "adata"
                /\ r.value = Fitted(adata, a.backward)
                /\ adata' = adata
           /\ (~a.copy /\ a.return_estimator) =>
                /\ r.kind = "estimator"
                /\ r.value.class = a.estimator
                /\ r.value.adata = adata'
                /\ lin_key(a.backward) \in adata'.obsm
           /\ (~a.copy /\ ~a.return_estimator) =>
                /\ r.kind = "None"
                /\ lin_key(a.backward) \in adata'.obsm]_vars

\* copy=True together with return_estimator=True: the copy comes back with the
\* lineages, which the caller's adata does not have
C21_Witness ==
  /\ LineagesCall
  /\ last.raised = NoError
  /\ last.args.copy /\ last.args.return_estimator
  /\ last.returned.kind = "adata"
  /\ lin_key(last.args.backward) \in last.returned.value.obsm
  /\ lin_key(last.args.backward) \notin adata.obsm

\* C29: an `estimator` that is no class, or no subclass of BaseEstimator, makes
\* lineages() raise TypeError before any other step (copy, kernel, reading the
\* matrix); a missing transition matrix of the direction makes it raise KeyError
\* with no estimator constructed or fitted.
C29_LineagesRejectsEarly ==
  LineagesCall =>
    /\ ~IsEstimatorClass(last.args.estimator) =>
         (last.raised.type = "TypeError" /\ last.steps = << >>)
    /\ (IsEstimatorClass(last.args.estimator)
        /\ ~HasTransitionMatrix(adata, last.args.backward)) =>
         /\ "read" \in Steps(last.steps) => last.raised.type = "KeyError"
         /\ last.raised # NoError
         /\ Steps(last.steps) \cap {"construct", "fit"} = {}

\* a class that is not an estimator is refused; so is, after the kernel was
\* built and the read attempted, an adata without the matrix
C29_Witness ==
  /\ LineagesCall
  /\ \/ last.args.estimator = "dict" /\ last.raised = Exc("TypeError", "not a BaseEstimator")
     \/ /\ last.raised = Exc("KeyError", "compute the states first")
        /\ "read" \in Steps(last.steps)

\* ------------------------------------------------- heatmap, kind 'lineages'

\* largest number of genes requested
MaxGenes == 3
\* largest number of lineages
MaxLineages == 2

\* The fitted models, by what lineage_per_gene reads of them: peaks[l][g] is the
\* position np.argmax finds in the min-max scaled expression of gene g along
\* lineage l.  Genes are named by their position in `genes`, which holds each
\* gene once (_unique_order_preserving).
HeatmapData ==
  UNION {[1..nl -> [1..ng -> {1, 2}]] : nl \in 1..MaxLineages, ng \in 1..MaxGenes}

\* df.iloc[np.argsort(np.argmax(...)), :]: the genes sorted by their peak
SortedByPeak(peak) == argsort(peak)

StoredOrder_never(gene_order, index, keep_gene_order) == gene_order

\* `if keep_gene_order: gene_order = df.index`
StoredOrder(gene_order, index, keep_gene_order) ==
  IF keep_gene_order THEN index ELSE gene_order

\* The loop of lineage_per_gene from lineage l on: the row order of the frame
\* handed to clustermap for each lineage.  << >> stands for gene_order = None.
RECURSIVE lineage_per_gene(_, _, _, _, _)
lineage_per_gene(peaks, l, gene_order, cluster_genes, keep_gene_order) ==
  IF l > Len(peaks) THEN << >>
  ELSE
    LET genes == [g \in 1..Len(peaks[l]) |-> g]
        index == IF cluster_genes THEN genes
                 ELSE IF gene_order # << >> THEN gene_order
                 ELSE SortedByPeak(peaks[l])
        stored == IF cluster_genes \/ gene_order # << >> THEN gene_order
                  ELSE StoredOrder(gene_order, index, keep_gene_order)
    IN  <<index>> \o lineage_per_gene(peaks, l + 1, stored, cluster_genes, keep_gene_order)

InitHeatmap ==
  /\ T = "two_blocks"
  /\ issparse = FALSE
  /\ est = None
  /\ adata \in HeatmapData
  /\ np_random = 0
  /\ last = [op |-> "init"]

heatmap ==
  \E cluster_genes \in BOOLEAN, keep_gene_order \in BOOLEAN :
      /\ last' = [op |-> "heatmap", cluster_genes |-> cluster_genes,
                  keep_gene_order |-> keep_gene_order,
                  shown |-> lineage_per_gene(adata, 1, << >>, cluster_genes, keep_gene_order)]
      /\ UNCHANGED <<est, adata, T, issparse, np_random>>

SpecHeatmap == InitHeatmap /\ [][heatmap]_vars

KeptOrderCall == last.op = "heatmap" /\ ~last.cluster_genes /\ last.keep_gene_order

\* C22: with cluster_genes=False and keep_gene_order=True every lineage shows the
\* genes in the order found for the first lineage, which sorts the genes by the
\* position of their peak there, and every lineage shows each gene exactly once.
C22_SameGeneOrderForAllLineages ==
  KeptOrderCall =>
    LET ng == Len(adata[1])
        first == last.shown[1]
    IN  /\ Len(last.shown) = Len(adata)
        /\ \A l \in 1..Len(adata) :
             /\ last.shown[l] = first
             /\ Len(last.shown[l]) = ng
             /\ \A g \in 1..ng : Cardinality({r \in 1..ng : last.shown[l][r] = g}) = 1
        /\ \A r \in 1..(ng - 1) : adata[1][first[r]] <= adata[1][first[r + 1]]

\* two lineages whose peaks would sort the genes differently
C22_Witness ==
  /\ KeptOrderCall
  /\ Len(adata) = 2
  /\ SortedByPeak(adata[1]) # SortedByPeak(adata[2])
  /\ last.shown[2] = SortedByPeak(adata[1])

\* ------------------------------------------- plotting what was not computed

Schur_plot_schur_matrix_unchecked(s) == Returns(s, << >>, << >>, FALSE)

\* Schur.plot_schur_matrix: reads the Schur matrix, which must be there
Schur_plot_schur_matrix(s) ==
  IF s.est._schur_matrix = None
    THEN Raises(s, Exc("RuntimeError", "compute schur first"), << >>, << >>, FALSE)
    ELSE Returns(s, << >>, << >>, FALSE)

plot_schur_matrix == Call("plot_schur_matrix", << >>, Schur_plot_schur_matrix(Objects))

\* the objects after one compute_eig call on a fresh estimator, whatever its
\* arguments and outcome
AfterComputeEig(t, sp) ==
  LET fresh == [est |-> Estimator0, adata |-> [uns_eig |-> None, uns_keys |-> {}]]
      Args == (2..MaxK) \X Which \X (1..MaxAlpha) \X BOOLEAN
      After(a, L) ==
        {Eigen_compute(fresh, t, sp, a[1], a[2], a[3], a[4], L, R).s :
           R \in IF a[4] \/ L.err # "none" THEN {NotCalled}
                                           ELSE RightCall(t, sp, a[1], a[2])}
  IN  UNION {UNION {After(a, L) : L \in LeftCall(t, sp, a[1], a[2])} : a \in Args}

\* an estimator on the irreducible chain, held as a dense matrix, that is fresh or
\* has had its eigendecomposition computed, with or without eigenvectors
InitAllPlots ==
  /\ T = "lazy_walk"
  /\ issparse = FALSE
  /\ \E s \in {[est |-> Estimator0, adata |-> [uns_eig |-> None, uns_keys |-> {}]]}
                \cup AfterComputeEig(T, issparse) :
       est = s.est /\ adata = s.adata
  /\ np_random = 0
  /\ last = [op |-> "init", args |-> << >>, raised |-> NoError, attempts |-> << >>,
             errors |-> << >>, warned |-> FALSE]

\* the Schur decomposition and all three plots, in any order
SpecAllPlots ==
  InitAllPlots /\ [][\/ compute_schur \/ plot_eigendecomposition
                     \/ plot_spectrum \/ plot_schur_matrix]_vars

\* the artifact the plot call of last' needs is not there before the call
NotComputed ==
  \/ /\ last'.op \in {"plot_spectrum", "plot_eigendecomposition"}
     /\ est._eig = None
  \/ /\ last'.op = "plot_eigendecomposition"
     /\ est._eig # None
     /\ DOMAIN est._eig \cap {"V_l", "V_r"} = {}
  \/ /\ last'.op = "plot_schur_matrix"
     /\ est._schur_matrix = None

\* C23: a plot of an artifact that was not computed raises RuntimeError and
\* changes nothing: plot_spectrum and plot_eigendecomposition without a stored
\* eig mapping, plot_eigendecomposition on a mapping without eigenvectors (after
\* only_evals=True, or after compute_schur wrote the mapping), and
\* plot_schur_matrix without a Schur matrix.
C23_PlotNeedsComputed ==
  [][NotComputed => (/\ last'.raised.type = "RuntimeError"
                     /\ est' = est
                     /\ adata' = adata)]_vars

\* plot_eigendecomposition refused on a mapping written with only_evals=True
C23_Witness ==
  /\ last.op = "plot_eigendecomposition"
  /\ last.raised = Exc("RuntimeError", "compute with only_evals=False")
  /\ est._schur = None
  /\ est._eig # None

\* ------------------------------------------------ the eig entry of adata.uns

\* an estimator on the irreducible chain, held as a dense matrix
InitDecompositions ==
  /\ T = "lazy_walk"
  /\ issparse = FALSE
  /\ est = Estimator0
  /\ adata = [uns_eig |-> None, uns_keys |-> {}]
  /\ np_random = 0
  /\ last = [op |-> "init", args |-> << >>, raised |-> NoError, attempts |-> << >>,
             errors |-> << >>, warned |-> FALSE]

\* both decompositions on one estimator, in any order
SpecDecompositions == InitDecompositions /\ [][Next]_vars

\* the names of Direction.FORWARD and Direction.BACKWARD
Directions == {"fwd", "bwd"}

\* C24: after a successful compute_eig or compute_schur the eig property and the
\* entry of adata.uns are the same mapping, the one the call wrote, and adata.uns
\* holds it under one key, 'eig_' followed by the name of a direction.
C24_EigEntryKeyedByDirection ==
  (last.op \in {"compute_eig", "compute_schur"} /\ last.raised = NoError) =>
    /\ adata.uns_eig = est._eig
    /\ est._eig.params.which = last.args.which
    /\ \E dir \in Directions : adata.uns_keys = {<<"eig_", dir>>}

\* C25: a compute_schur call that raises after its parameter check, the attempt
\* and its retry having failed, leaves the estimator as it was: Schur vectors,
\* Schur matrix, eig mapping and _gpcca are those of the previous decomposition,
\* or all still unset.
C25_FailedSchurLeavesEstimator ==
  [][(/\ last'.op = "compute_schur"
      /\ last'.raised # NoError
      /\ last'.attempts # << >>)
     => (est' = est /\ adata' = adata)]_vars

\* ------------------------------------------- only_evals against the full call

\* what compute_eig with the given only_evals can store for the matrix, over
\* every outcome of the solver calls
StoredBy(t, sp, k, which, alpha, only_evals) ==
  {r.s.est._eig :
     r \in {x \in UNION {{Eigen_compute(Objects, t, sp, k, which, alpha, only_evals, L, R) :
                            R \in IF only_evals THEN {NotCalled} ELSE RightCall(t, sp, k, which)} :
                         L \in {l \in LeftCall(t, sp, k, which) : l.err = "none"}} :
             x.raised = NoError}}


\* C26: for the same matrix, k, which and alpha, compute_eig(only_evals=True)
\* stores the same eigenvalues D and the same eigengap as
\* compute_eig(only_evals=False): what one call stored is what the call with the
\* other value of only_evals stores, up to V_l, V_r and stationary_dist.
C26_OnlyEvalsSameAsFull ==
  EigStored =>
    \E other \in StoredBy(T, issparse, est._eig.params.k, est._eig.params.which,
                          est._eig.params.alpha, ~last.args.only_evals) :
      /\ other.D = est._eig.D
      /\ other.eigengap = est._eig.eigengap

\* ------------------------------------------- VectorPlottable._plot_vectors

\* most columns of the vectors, and most entries of a tuple or list `use`
MaxCols == 2
MaxUseLen == 2

\* the property kinds: P.EIG, P.SCHUR and a kind that is neither
PropKinds == {"eigendecomposition", "schur", "meta_states"}

\* an entry of a tuple or list `use`: an integer, or an object that is none
\* (a float); integers range from below 0 to beyond the last column
UseEntries ==
  {[int |-> TRUE, v |-> v] : v \in -1..MaxCols} \cup {[int |-> FALSE, v |-> 0]}

SeqsUpTo(S, n) == UNION {[1..m -> S] : m \in 0..n}

\* `use`: None, an int, a tuple or list (a range behaves as the list of its
\* integers), or an object of another type (a string)
UseValues ==
  {[t |-> "None", v |-> << >>], [t |-> "str", v |-> << >>]}
    \cup {[t |-> "int", v |-> <<[int |-> TRUE, v |-> n]>>] : n \in -1..(MaxCols + 1)}
    \cup {[t |-> k, v |-> u] : k \in {"tuple", "list"}, u \in SeqsUpTo(UseEntries, MaxUseLen)}

\* list(range(a, b))
range(a, b) == [i \in 1..(IF b > a THEN b - a ELSE 0) |-> a + i - 1]

Max(S) == CHOOSE x \in S : \A y \in S : y <= x

Range(f) == {f[i] : i \in DOMAIN f}

\* the outcome of _plot_vectors: the exception raised, and the column indices
\* handed to vectors[:, use] and to the scatter plot
Plotted(ix) == [raised |-> NoError, selected |-> ix]
Refused(e) == [raised |-> e, selected |-> << >>]

\* the bound check of the selected indices: max(use) >= vectors.shape[1]
IndexCheck(ix, cols) == Max(Range(ix)) >= cols

\* VectorPlottable._plot_vectors on vectors with the given number of columns
\* (None when not computed), `consistent` telling whether adata.n_obs equals
\* vectors.shape[0]
VectorPlottable_plot_vectors(vectors, prop, use) ==
  IF prop \notin {"eigendecomposition", "schur"} THEN Refused(Exc("ValueError", "invalid kind"))
  ELSE IF vectors = None THEN Refused(Exc("RuntimeError", "compute first"))
  ELSE IF ~vectors.consistent THEN Refused(Exc("ValueError", "number of cells"))
  ELSE
    LET is_schur == IF prop = "schur" THEN 1 ELSE 0
        cols == vectors.cols
        ix == IF use.t = "None" THEN range(is_schur, cols + is_schur - 1)
              ELSE IF use.t = "int" THEN range(is_schur, use.v[1].v + is_schur)
              ELSE [i \in DOMAIN use.v |-> use.v[i].v]
    IN  IF use.t \notin {"None", "int", "tuple", "list"}
          THEN Refused(Exc("TypeError", "use must be int, tuple, list or range"))
        ELSE IF \E i \in DOMAIN use.v : ~use.v[i].int
          THEN Refused(Exc("TypeError", "not all values are integers"))
        ELSE IF ix = << >> THEN Refused(Exc("ValueError", "nothing to plot"))
        ELSE IF IndexCheck(ix, cols) THEN Refused(Exc("ValueError", "more than computed"))
        ELSE Plotted(ix)

\* the vectors of an estimator: not computed, or 1..MaxCols columns
VectorArrays ==
  {None} \cup {[cols |-> c, consistent |-> b] : c \in 1..MaxCols, b \in BOOLEAN}

InitPlotVectors ==
  /\ T = "lazy_walk"
  /\ issparse = FALSE
  /\ np_random = 0
  /\ est \in VectorArrays
  /\ adata = None
  /\ last = [op |-> "init", prop |-> "schur", use |-> [t |-> "None", v |-> << >>],
             raised |-> NoError, selected |-> << >>]

plot_vectors ==
  \E prop \in PropKinds, use \in UseValues :
    LET r == VectorPlottable_plot_vectors(est, prop, use)
    IN  /\ last' = [op |-> "_plot_vectors", prop |-> prop, use |-> use,
                    raised |-> r.raised, selected |-> r.selected]
        /\ UNCHANGED <<est, adata, T, issparse, np_random>>

SpecPlotVectors == InitPlotVectors /\ [][plot_vectors]_vars

\* the call got as far as looking at `use`
UseExamined ==
  /\ last.op = "_plot_vectors"
  /\ last.prop \in {"eigendecomposition", "schur"}
  /\ est # None
  /\ est.consistent

\* `use` has an accepted type and integer entries only
WellTyped(use) ==
  /\ use.t \in {"None", "int", "tuple", "list"}
  /\ \A i \in DOMAIN use.v : use.v[i].int

\* the column indices `use` asks for
Requested(use, prop, cols) ==
  LET is_schur == IF prop = "schur" THEN 1 ELSE 0
  IN  IF use.t = "None" THEN range(is_schur, cols + is_schur - 1)
      ELSE IF use.t = "int" THEN range(is_schur, use.v[1].v + is_schur)
      ELSE [i \in DOMAIN use.v |-> use.v[i].v]

\* C27: _plot_vectors only ever selects existing columns: every selected index i
\* satisfies 0 <= i < number of computed vectors; a `use` asking for an index
\* outside that range, or for none, is rejected with ValueError, a `use` of
\* another type or with a non-integer entry with TypeError, an unknown kind with
\* ValueError, and a rejected call plots nothing.
C27_OnlyExistingColumns ==
  /\ (last.op = "_plot_vectors" /\ last.raised = NoError) =>
        \A i \in Range(last.selected) : 0 <= i /\ i < est.cols
  /\ (last.op = "_plot_vectors" /\ last.raised # NoError) => last.selected = << >>
  /\ (last.op = "_plot_vectors" /\ last.prop \notin {"eigendecomposition", "schur"}) =>
        last.raised.type = "ValueError"
  /\ (UseExamined /\ ~WellTyped(last.use)) => last.raised.type = "TypeError"
  /\ (UseExamined /\ WellTyped(last.use)) =>
        LET ix == Requested(last.use, last.prop, est.cols)
        IN  (ix = << >> \/ \E i \in Range(ix) : i < 0 \/ i >= est.cols)
              => last.raised.type = "ValueError"

\* ------------------------------------------------- KernelHolder.__init__

\* a matrix, as the value of transition_matrix or of an entry of obsp
Matrix(name) == [of |-> name]

\* keys an AnnData may hold in obsp, and the values of obsp_key
ObspKeys == {"T_fwd", "connectivities", "distances"}
ObspKeyArgs == {None} \cup {[key |-> k] : k \in ObspKeys}

\* the values of key_added, handed on to kernel.write_to_adata
KeyAddedArgs == {None, [key |-> "T_fwd"], [key |-> "T_custom"]}

\* what is passed as obj: a kernel expression with or without a transition
\* matrix, a dense array, a sparse matrix, an AnnData, or something else
HolderObjects ==
  {[class |-> "KernelExpression", transition_matrix |-> m] : m \in {None, Matrix("kernel")}}
    \cup {[class |-> c] : c \in {"ndarray", "spmatrix", "str"}}
    \cup {[class |-> "AnnData", obsp |-> ks] : ks \in SUBSET ObspKeys}

\* PrecomputedKernel(matrix): a kernel holding the matrix it was given
PrecomputedKernel(m) == [class |-> "PrecomputedKernel", transition_matrix |-> m]

\* kernel.compute_transition_matrix() with default parameters
compute_transition_matrix(kernel) ==
  [kernel EXCEPT !.transition_matrix = Matrix("default parameters")]

\* the test before compute_transition_matrix, and one that never asks for it
NeedsCompute_never(kernel) == FALSE

NeedsCompute(kernel) == kernel.transition_matrix = None

\* the outcome of a construction: the holder, or the exception
Holder(kernel) == [holder |-> [_kernel |-> kernel], raised |-> NoError, written |-> TRUE]
NoHolder(e) == [holder |-> None, raised |-> e, written |-> FALSE]

\* the part of __init__ after the kernel is chosen; compute_ok and write_ok tell
\* whether compute_transition_matrix and write_to_adata return
Finish(kernel, compute_ok, write_ok) ==
  IF NeedsCompute(kernel) /\ ~compute_ok THEN NoHolder(Exc("Exception", "compute_transition_matrix"))
  ELSE IF ~write_ok THEN NoHolder(Exc("Exception", "write_to_adata"))
  ELSE IF NeedsCompute(kernel) THEN Holder(compute_transition_matrix(kernel))
  ELSE Holder(kernel)

\* KernelHolder.__init__; wrap_ok tells whether PrecomputedKernel accepts the matrix
KernelHolder_init(obj, obsp_key, wrap_ok, compute_ok, write_ok) ==
  IF obj.class = "KernelExpression" THEN Finish(obj, compute_ok, write_ok)
  ELSE IF obj.class \in {"ndarray", "spmatrix"}
    THEN IF wrap_ok THEN Finish(PrecomputedKernel(Matrix(obj.class)), compute_ok, write_ok)
                    ELSE NoHolder(Exc("Exception", "PrecomputedKernel"))
  ELSE IF obj.class = "AnnData"
    THEN IF obsp_key = None THEN NoHolder(Exc("ValueError", "obsp_key"))
         ELSE IF obsp_key.key \notin obj.obsp THEN NoHolder(Exc("KeyError", "obsp_key"))
         ELSE IF wrap_ok THEN Finish(PrecomputedKernel(Matrix(obsp_key.key)), compute_ok, write_ok)
         ELSE NoHolder(Exc("Exception", "PrecomputedKernel"))
  ELSE NoHolder(Exc("TypeError", "obj"))

\* est is the holder last constructed, None before the first construction and
\* after a failed one; adata holds the key the kernel last wrote its matrix under
InitHolder ==
  /\ T = "lazy_walk"
  /\ issparse = FALSE
  /\ np_random = 0
  /\ est = None
  /\ adata = None
  /\ last = [op |-> "init", obj |-> [class |-> "str"], obsp_key |-> None, raised |-> NoError]

KernelHolder ==
  \E obj \in HolderObjects, obsp_key \in ObspKeyArgs, key_added \in KeyAddedArgs,
     wrap_ok \in BOOLEAN, compute_ok \in BOOLEAN, write_ok \in BOOLEAN :
    LET r == KernelHolder_init(obj, obsp_key, wrap_ok, compute_ok, write_ok)
    IN  /\ est' = r.holder
        /\ last' = [op |-> "KernelHolder", obj |-> obj, obsp_key |-> obsp_key, raised |-> r.raised]
        /\ adata' = IF r.written THEN [key_added |-> key_added] ELSE adata
        /\ UNCHANGED <<T, issparse, np_random>>

SpecHolder == InitHolder /\ [][KernelHolder]_vars

Constructed == last.op = "KernelHolder" /\ last.raised = NoError

\* C28: KernelHolder construction fails or yields a holder whose kernel has a
\* transition matrix: a KernelExpression is used as is, an array or sparse matrix
\* is wrapped in a PrecomputedKernel, an AnnData without obsp_key raises
\* ValueError and with an absent obsp_key KeyError, any other object TypeError.
C28_HolderHasTransitionMatrix ==
  last.op = "KernelHolder" =>
    /\ last.raised # NoError => est = None
    /\ Constructed =>
         /\ est # None
         /\ est._kernel.transition_matrix # None
         /\ last.obj.class = "KernelExpression" =>
              /\ est._kernel.class = "KernelExpression"
              /\ last.obj.transition_matrix # None => est._kernel = last.obj
         /\ last.obj.class \in {"ndarray", "spmatrix"} =>
              est._kernel = PrecomputedKernel(Matrix(last.obj.class))
         /\ last.obj.class = "AnnData" =>
              est._kernel = PrecomputedKernel(Matrix(last.obsp_key.key))
    /\ (last.obj.class = "AnnData" /\ last.obsp_key = None) => last.raised.type = "ValueError"
    /\ (last.obj.class = "AnnData" /\ last.obsp_key # None /\ last.obsp_key.key \notin last.obj.obsp)
         => last.raised.type = "KeyError"
    /\ last.obj.class \notin {"KernelExpression", "ndarray", "spmatrix", "AnnData"}
         => last.raised.type = "TypeError"

\* a kernel expression without a transition matrix was given and the holder's
\* kernel has the one computed with default parameters
C28_Witness ==
  /\ Constructed
  /\ last.obj.class = "KernelExpression"
  /\ last.obj.transition_matrix = None
  /\ est._kernel.transition_matrix = Matrix("default parameters")

\* ------------------------------------------------- _reconstruct_matrices

\* most rows of the sparse matrix, and most columns a row has entries in
MaxRows == 3
MaxWidth == 1

RECURSIVE Concat(_)
Concat(rows) == IF rows = << >> THEN << >> ELSE Head(rows) \o Concat(Tail(rows))

\* csr_matrix((data, indices, indptr)); indptr holds offsets from 0, rows and
\* positions are counted from 1
csr_matrix(data, indices, indptr) == [data |-> data, indices |-> indices, indptr |-> indptr]

\* the CSR matrix with the given rows of column indices and of values
FromRows(cols, vals) ==
  csr_matrix(Concat(vals), Concat(cols),
             [i \in 1..(Len(cols) + 1) |-> Len(Concat(SubSeq(cols, 1, i - 1)))])

NRows(m) == Len(m.indptr) - 1
nnz(m) == Len(m.indices)
RowIndices(m, r) == SubSeq(m.indices, m.indptr[r] + 1, m.indptr[r + 1])
RowData(m, r) == SubSeq(m.data, m.indptr[r] + 1, m.indptr[r + 1])

\* m[ix]: the rows of m in the order ix
RowIndex(m, ix) ==
  FromRows([i \in 1..Len(ix) |-> RowIndices(m, ix[i])], [i \in 1..Len(ix) |-> RowData(m, ix[i])])

\* the sparsity patterns: up to MaxRows rows, each with entries in some of the
\* first MaxWidth columns; the values of mat itself play no part
Patterns ==
  UNION {[1..n -> {Ascending(I) : I \in SUBSET (1..MaxWidth)}] : n \in 1..MaxRows}

Mat(cols) == FromRows(cols, [r \in 1..Len(cols) |-> [j \in 1..Len(cols[r]) |-> 1]])

Perms(n) == {p \in [1..n -> 1..n] : \A i, j \in 1..n : p[i] = p[j] => i = j}

\* ixs: None, or a permutation of the rows
IxsValues(n) == {None} \cup {[perm |-> p] : p \in Perms(n)}

\* the probability and the correlation computed for the entry of row r in
\* column c, in the matrix `layer` of 3-dimensional data
ProbAt(layer, r, c) == 100 * layer + 10 * r + c
CorAt(layer, r, c) == 0 - ProbAt(layer, r, c)

\* the rows in which the solver went through the matrix
RowOrder(mat, ixs) == IF ixs = None THEN [r \in 1..NRows(mat) |-> r] ELSE ixs.perm

\* the 2 x nnz array of one matrix, laid out in the row order mat[ixs]
LaidOut(mat, ixs, layer) ==
  LET order == RowOrder(mat, ixs)
      row(F(_, _, _), r) == [j \in 1..Len(RowIndices(mat, r)) |-> F(layer, r, RowIndices(mat, r)[j])]
  IN  << Concat([i \in 1..Len(order) |-> row(ProbAt, order[i])]),
         Concat([i \in 1..Len(order) |-> row(CorAt, order[i])]) >>

\* the layers of the data: one 2 x nnz array (ndim 2), or a stack of them (ndim 3)
Stacks == {[ndim |-> 2, layers |-> <<0>>], [ndim |-> 3, layers |-> <<0, 1>>]}

\* aixs of _reconstruct_matrices, and ixs taken for its own inverse
Aixs_same(ixs) == IF ixs = None THEN None ELSE [perm |-> ixs.perm]

Aixs(ixs) == IF ixs = None THEN None ELSE [perm |-> argsort(ixs.perm)]

\* _reconstruct: the probability and the correlation matrix, or the failed assertion
_reconstruct(data, mat, ixs, aixs) ==
  IF Len(data) # 2 \/ Len(data[1]) # nnz(mat) \/ Len(data[2]) # nnz(mat)
    THEN [raised |-> Exc("AssertionError", "shape mismatch"), value |-> << >>]
  ELSE IF ixs # None /\ Len(ixs.perm) # NRows(mat)
    THEN [raised |-> Exc("AssertionError", "shape mismatch"), value |-> << >>]
  ELSE
    LET m == IF ixs = None THEN mat ELSE RowIndex(mat, ixs.perm)
        probs == csr_matrix(data[1], m.indices, m.indptr)
        cors == csr_matrix(data[2], m.indices, m.indptr)
    IN  IF ixs = None THEN [raised |-> NoError, value |-> << probs, cors >>]
        ELSE [raised |-> NoError,
              value |-> << RowIndex(probs, aixs.perm), RowIndex(cors, aixs.perm) >>]

\* _reconstruct_matrices: for 3-dimensional data the zip of the pairs, i.e. the
\* sequence of the probability matrices and that of the correlation matrices
_reconstruct_matrices(data, ndim, mat, ixs) ==
  LET aixs == Aixs(ixs)
      each == [i \in 1..Len(data) |-> _reconstruct(data[i], mat, ixs, aixs)]
  IN  IF ndim = 2 THEN each[1]
      ELSE IF \E i \in 1..Len(data) : each[i].raised # NoError
        THEN [raised |-> Exc("AssertionError", "shape mismatch"), value |-> << >>]
      ELSE [raised |-> NoError,
            value |-> << [i \in 1..Len(data) |-> each[i].value[1]],
                         [i \in 1..Len(data) |-> each[i].value[2]] >>]

\* the data of a call: laid out in the order mat[ixs], or one value short
DataFor(mat, ixs, stack, short) ==
  LET cut(a) == IF short /\ a # << >> THEN SubSeq(a, 1, Len(a) - 1) ELSE a
  IN  [i \in 1..Len(stack.layers) |->
         << cut(LaidOut(mat, ixs, stack.layers[i])[1]), LaidOut(mat, ixs, stack.layers[i])[2] >>]

\* adata holds the arguments of the call, est is unused
InitReconstruct ==
  /\ T = "lazy_walk"
  /\ issparse = TRUE
  /\ np_random = 0
  /\ est = None
  /\ \E cols \in Patterns, stack \in Stacks, short \in BOOLEAN :
       \E ixs \in IxsValues(Len(cols)) :
         adata = [mat |-> Mat(cols), ixs |-> ixs, stack |-> stack, short |-> short,
                  data |-> DataFor(Mat(cols), ixs, stack, short)]
  /\ last = [op |-> "init", raised |-> NoError, value |-> << >>]

reconstruct_matrices ==
  LET r == _reconstruct_matrices(adata.data, adata.stack.ndim, adata.mat, adata.ixs)
  IN  /\ last' = [op |-> "_reconstruct_matrices", raised |-> r.raised, value |-> r.value]
      /\ UNCHANGED <<est, adata, T, issparse, np_random>>

SpecReconstruct == InitReconstruct /\ [][reconstruct_matrices]_vars

\* the call returned
Reconstructed == last.op = "_reconstruct_matrices" /\ last.raised = NoError

\* the matrix with the pattern of mat in its original row order whose entry in
\* row r and column c is F(layer, r, c)
Expected(F(_, _, _), mat, layer) ==
  csr_matrix(Concat([r \in 1..NRows(mat) |->
                       [j \in 1..Len(RowIndices(mat, r)) |-> F(layer, r, RowIndices(mat, r)[j])]]),
             mat.indices, mat.indptr)

\* C30: _reconstruct_matrices is order-preserving for every row permutation ixs:
\* given data laid out in the row order mat[ixs], the returned probability and
\* correlation matrices have the indices and indptr of mat in its original row
\* order and row r holds the values computed for original row r; with ixs = None
\* the data is placed in the original order directly.
C30_ReconstructPreservesOrder ==
  Reconstructed =>
    IF adata.stack.ndim = 2
      THEN /\ last.value[1] = Expected(ProbAt, adata.mat, adata.stack.layers[1])
           /\ last.value[2] = Expected(CorAt, adata.mat, adata.stack.layers[1])
      ELSE \A i \in 1..Len(adata.stack.layers) :
             /\ last.value[1][i] = Expected(ProbAt, adata.mat, adata.stack.layers[i])
             /\ last.value[2][i] = Expected(CorAt, adata.mat, adata.stack.layers[i])

\* a call with a permutation that is not its own inverse, on a matrix whose rows
\* differ in their number of entries
C30_Witness ==
  /\ Reconstructed
  /\ adata.ixs # None
  /\ argsort(adata.ixs.perm) # adata.ixs.perm
  /\ \E r, q \in 1..NRows(adata.mat) :
       Len(RowIndices(adata.mat, r)) # Len(RowIndices(adata.mat, q))
  /\ nnz(adata.mat) > 0

====
